---- MODULE Spec2Model ----
(***************************************************************************)
(* Inflation-vs-Market-Returns-Analysis: FinancialCalculator               *)
(* (src/src/calculations.py) and DataLoader.resample_to_monthly            *)
(* (src/src/data_loader.py).                                               *)
(*                                                                         *)
(* The calculator is a set of static methods over pandas Series and        *)
(* DataFrames.  A Series is modelled as a sequence of index labels and a   *)
(* sequence of values; a DataFrame as an index and a function from column  *)
(* name to a sequence of values.  A float is modelled by an exact number:  *)
(* a rational, NaN, a signed infinity, or a signed square root of a        *)
(* rational (standard deviations and correlations); rounding error of the  *)
(* floating-point operations is not modelled.                              *)
(***************************************************************************)
EXTENDS Integers, Sequences, FiniteSets, TLC

(***************************************************************************)
(* Bounds of the model.                                                    *)
(***************************************************************************)
\* longest price series / frame
MaxLen == 3
\* longest input series of align_data
MaxRows == 2

VARIABLES
    pct_fill,        \* pandas build: what Series.pct_change does with a missing price
    prices_df,       \* calculate_returns, resample_to_monthly: the column price_col
    cpi_df,          \* align_data: the inflation frame (index, Inflation_Rate)
    returns_series,  \* align_data: the return series (index, values)
    inflation_rate,  \* classify_inflation_regime: its argument
    df,              \* the caller's combined frame, passed to the enrichment steps
    last             \* the last call: operation, arguments, return value or error

vars == <<pct_fill, prices_df, cpi_df, returns_series, inflation_rate, df, last>>

(***************************************************************************)
(* Numbers.  [k, n, d]: k = "num" is the rational n/d (d > 0, lowest       *)
(* terms); "nan" is NaN; "inf" is +inf (n = 1) or -inf (n = -1); "sqrt" is *)
(* sign(n) * sqrt(|n|/d), an irrational or not yet simplified root.        *)
(***************************************************************************)
Abs(i) == IF i < 0 THEN -i ELSE i

Sign(i) == IF i < 0 THEN -1 ELSE IF i > 0 THEN 1 ELSE 0

RECURSIVE GCD(_, _)
GCD(a, b) == IF b = 0 THEN a ELSE GCD(b, a % b)

NaN == [k |-> "nan", n |-> 0, d |-> 1]

Inf(s) == [k |-> "inf", n |-> s, d |-> 1]

Rat(n, d) ==
    LET g == GCD(Abs(n), Abs(d))
    IN  [k |-> "num", n |-> Sign(d) * (n \div g), d |-> Abs(d) \div g]

Num(i) == Rat(i, 1)

IsNaN(x) == x.k = "nan"

IsNum(x) == x.k = "num"

IsZero(x) == x.k = "num" /\ x.n = 0

\* the sign of a value that is not NaN
SignOf(x) == Sign(x.n)

FNeg(x) == [x EXCEPT !.n = -x.n]

FAdd(x, y) ==
    IF IsNaN(x) \/ IsNaN(y) THEN NaN
    ELSE IF x.k = "inf" /\ y.k = "inf" THEN (IF x.n = y.n THEN x ELSE NaN)
    ELSE IF x.k = "inf" THEN x
    ELSE IF y.k = "inf" THEN y
    ELSE LET g == GCD(x.d, y.d)
         IN  Rat(x.n * (y.d \div g) + y.n * (x.d \div g), (x.d \div g) * y.d)

FSub(x, y) == FAdd(x, FNeg(y))

FMul(x, y) ==
    IF IsNaN(x) \/ IsNaN(y) THEN NaN
    ELSE IF x.k = "inf" \/ y.k = "inf"
         THEN (IF SignOf(x) * SignOf(y) = 0 THEN NaN ELSE Inf(SignOf(x) * SignOf(y)))
    ELSE LET g1 == GCD(Abs(x.n), y.d)
             g2 == GCD(Abs(y.n), x.d)
         IN  Rat((x.n \div g1) * (y.n \div g2), (x.d \div g2) * (y.d \div g1))

\* IEEE division: x/0 is +-inf, 0/0 and inf/inf are NaN
FDiv(x, y) ==
    IF IsNaN(x) \/ IsNaN(y) THEN NaN
    ELSE IF y.k = "inf" THEN (IF x.k = "inf" THEN NaN ELSE Num(0))
    ELSE IF x.k = "inf"
         THEN Inf(x.n * (IF SignOf(y) < 0 THEN -1 ELSE 1))
    ELSE IF y.n = 0
         THEN (IF x.n = 0 THEN NaN ELSE Inf(Sign(x.n)))
    ELSE FMul(x, Rat(y.d, y.n))

\* x < y on floats: False whenever an operand is NaN
FLess(x, y) ==
    IF IsNaN(x) \/ IsNaN(y) THEN FALSE
    ELSE IF x.k = "inf" THEN x.n = -1 /\ ~(y.k = "inf" /\ y.n = -1)
    ELSE IF y.k = "inf" THEN y.n = 1
    ELSE x.n * y.d < y.n * x.d

One == Num(1)

Zero == Num(0)

Range(s) == {s[i] : i \in DOMAIN s}

SeqsUpTo(S, n) == UNION {[1..m -> S] : m \in 0..n}

\* the positions from i on, in order, whose flag is set
RECURSIVE Positions(_, _)
Positions(flags, i) ==
    IF i > Len(flags) THEN <<>>
    ELSE IF flags[i] THEN <<i>> \o Positions(flags, i + 1)
    ELSE Positions(flags, i + 1)

Take(s, pos) == [j \in 1..Len(pos) |-> s[pos[j]]]

(***************************************************************************)
(* A Series: index labels and values, position by position.                *)
(***************************************************************************)
Series(index, values) == [index |-> index, values |-> values]

EmptySeries == Series(<<>>, <<>>)

\* Series.dropna(): the entries whose value is not NaN (an infinity stays)
dropna(s) ==
    LET pos == Positions([i \in DOMAIN s.values |-> ~IsNaN(s.values[i])], 1)
    IN  Series(Take(s.index, pos), Take(s.values, pos))

(***************************************************************************)
(* calculate_returns (calculations.py 13-31)                               *)
(***************************************************************************)
\* Series.ffill(): a missing value takes the last value before it, if any
RECURSIVE ffill(_)
ffill(v) ==
    IF Len(v) = 0 THEN <<>>
    ELSE LET init == ffill(SubSeq(v, 1, Len(v) - 1))
             x    == v[Len(v)]
         IN  Append(init,
                    IF IsNaN(x) /\ Len(init) > 0 THEN init[Len(init)] ELSE x)

\* Series.pct_change(): data / data.shift(1) - 1, where data is the series
\* forward-filled when the build's default fill_method is "pad" (pandas 2.x)
\* and the series itself when it is None (pandas 3)
pct_change(s, fill) ==
    LET data == IF fill = "pad" THEN ffill(s.values) ELSE s.values
    IN  Series(s.index,
               [i \in DOMAIN data |->
                   IF i = 1 THEN NaN
                   ELSE FSub(FDiv(data[i], data[i - 1]), One)])

\* calculate_returns without its dropna(): every observation reported
calculate_returns_nodrop(prices, fill) == pct_change(prices, fill)

calculate_returns(prices, fill) == dropna(pct_change(prices, fill))

(***************************************************************************)
(* align_data (calculations.py 33-67)                                      *)
(*                                                                         *)
(* A date is the ordinal day of a non-leap year; the inputs of align_data  *)
(* are dates of January and February.                                      *)
(***************************************************************************)
\* index.to_period('M').to_timestamp('M'): the last day of the date's month
MonthEnd(date) == IF date <= 31 THEN 31 ELSE IF date <= 59 THEN 59 ELSE 90

to_month_end(index) == [i \in DOMAIN index |-> MonthEnd(index[i])]

Count(index, x) == Cardinality({i \in DOMAIN index : index[i] = x})

has_duplicates(index) == \E i, j \in DOMAIN index : i < j /\ index[i] = index[j]

\* the labels of bag (label -> multiplicity), ascending, each repeated
RECURSIVE SortedRepeat(_, _)
SortedRepeat(labels, mult) ==
    IF labels = {} THEN <<>>
    ELSE LET x == CHOOSE y \in labels : \A z \in labels : y <= z
         IN  [i \in 1..mult[x] |-> x] \o SortedRepeat(labels \ {x}, mult)

Max(a, b) == IF a >= b THEN a ELSE b

\* Index.union(other, sort=None), as union_indexes calls it for two
\* DatetimeIndexes: self as it is when other is empty or equal, other as it
\* is when self is empty, and otherwise the sorted union in which a label is
\* repeated as often as in the index that repeats it most
index_union(self, other) ==
    IF Len(other) = 0 \/ self = other THEN self
    ELSE IF Len(self) = 0 THEN other
    ELSE LET labels == Range(self) \cup Range(other)
         IN  SortedRepeat(labels,
                 [x \in labels |-> Max(Count(self, x), Count(other, x))])

\* Series.reindex(target): the series itself when the index equals target,
\* ValueError (cannot reindex on an axis with duplicate labels) when the
\* series' index has duplicates, else the value of each target label, NaN
\* for a label the series does not have
reindex(s, target) ==
    IF s.index = target THEN [raised |-> "none", value |-> s]
    ELSE IF has_duplicates(s.index)
         THEN [raised |-> "ValueError", value |-> Series(<<>>, <<>>)]
    ELSE [raised |-> "none",
          value  |-> Series(target,
              [i \in DOMAIN target |->
                  IF \E j \in DOMAIN s.index : s.index[j] = target[i]
                  THEN s.values[CHOOSE j \in DOMAIN s.index : s.index[j] = target[i]]
                  ELSE NaN])]

\* A DataFrame: the index and, for each column, its values
Frame(index, data) == [index |-> index, data |-> data]

EmptyFrame == Frame(<<>>, [c \in {"Inflation_Rate", "Nominal_Return"} |-> <<>>])

\* DataFrame.dropna(): the rows with no NaN in any column
frame_dropna(f) ==
    LET pos == Positions([i \in DOMAIN f.index |->
                             \A c \in DOMAIN f.data : ~IsNaN(f.data[c][i])], 1)
    IN  Frame(Take(f.index, pos), [c \in DOMAIN f.data |-> Take(f.data[c], pos)])

align_data(cpi, returns) ==
    LET cpi_normalized     == Series(to_month_end(cpi.index), cpi.values)
        returns_normalized == Series(to_month_end(returns.index), returns.values)
        index    == index_union(cpi_normalized.index, returns_normalized.index)
        infl     == reindex(cpi_normalized, index)
        nominal  == reindex(returns_normalized, index)
    IN  IF infl.raised # "none" \/ nominal.raised # "none"
        THEN [raised |-> "ValueError", value |-> EmptyFrame]
        ELSE [raised |-> "none",
              value  |-> frame_dropna(Frame(index,
                            [c \in {"Inflation_Rate", "Nominal_Return"} |->
                                IF c = "Inflation_Rate" THEN infl.value.values
                                ELSE nominal.value.values]))]

(***************************************************************************)
(* calculate_real_returns (calculations.py 69-89)                          *)
(***************************************************************************)
has_column(frame, c) == c \in DOMAIN frame.data

\* frame[c] = values: the column is added, or replaced, in the frame itself
set_column(frame, c, values) ==
    Frame(frame.index,
          [x \in DOMAIN frame.data \cup {c} |->
              IF x = c THEN values ELSE frame.data[x]])

\* Real_Return as the compounding formula (1 + n)/(1 + i) - 1
calculate_real_returns_compounded(combined_df) ==
    set_column(combined_df, "Real_Return",
        [i \in DOMAIN combined_df.index |->
            FSub(FDiv(FAdd(One, combined_df.data["Nominal_Return"][i]),
                      FAdd(One, combined_df.data["Inflation_Rate"][i])), One)])

calculate_real_returns(combined_df) ==
    set_column(combined_df, "Real_Return",
        [i \in DOMAIN combined_df.index |->
            FSub(combined_df.data["Nominal_Return"][i],
                 combined_df.data["Inflation_Rate"][i])])

(***************************************************************************)
(* classify_inflation_regime, add_inflation_regimes (calculations.py       *)
(* 115-155)                                                                *)
(***************************************************************************)
\* the thresholds compared with <= instead of <
classify_inflation_regime_inclusive(rate) ==
    IF ~FLess(Rat(1, 100), rate) /\ ~IsNaN(rate) THEN "Low (<1%)"
    ELSE IF ~FLess(Rat(3, 100), rate) /\ ~IsNaN(rate) THEN "Moderate (1-3%)"
    ELSE "High (>3%)"

classify_inflation_regime(rate) ==
    IF FLess(rate, Rat(1, 100)) THEN "Low (<1%)"
    ELSE IF FLess(rate, Rat(3, 100)) THEN "Moderate (1-3%)"
    ELSE "High (>3%)"

add_inflation_regimes(frame) ==
    set_column(frame, "Inflation_Regime",
        [i \in DOMAIN frame.index |->
            classify_inflation_regime(frame.data["Inflation_Rate"][i])])

(***************************************************************************)
(* calculate_cumulative_returns (calculations.py 180-198)                  *)
(***************************************************************************)
\* Series.cumprod() of a series without missing values
RECURSIVE cumprod(_)
cumprod(v) ==
    IF Len(v) = 0 THEN <<>>
    ELSE LET init == cumprod(SubSeq(v, 1, Len(v) - 1))
         IN  Append(init,
                    IF Len(init) = 0 THEN v[1] ELSE FMul(init[Len(init)], v[Len(v)]))

\* the cumulative sum of the returns instead of the compounded product
cumulative_additive(returns) ==
    [i \in DOMAIN returns |->
        LET RECURSIVE sum(_)
            sum(j) == IF j = 0 THEN Zero ELSE FAdd(sum(j - 1), returns[j])
        IN  sum(i)]

\* (1 + returns).cumprod() - 1
cumulative(returns) ==
    LET growth == cumprod([i \in DOMAIN returns |-> FAdd(One, returns[i])])
    IN  [i \in DOMAIN growth |-> FSub(growth[i], One)]

\* both columns read before the first assignment: a frame without
\* Real_Return is left as it was
calculate_cumulative_returns_atomic(frame) ==
    IF ~has_column(frame, "Real_Return")
    THEN [raised |-> "KeyError", frame |-> frame]
    ELSE [raised |-> "none",
          frame  |-> set_column(set_column(frame, "Cumulative_Nominal",
                                           cumulative(frame.data["Nominal_Return"])),
                                "Cumulative_Real", cumulative(frame.data["Real_Return"]))]

\* line 195 assigns Cumulative_Nominal to the caller's frame; line 196 reads
\* Real_Return and raises KeyError when the frame has no such column
calculate_cumulative_returns(frame) ==
    LET nominal == set_column(frame, "Cumulative_Nominal",
                              cumulative(frame.data["Nominal_Return"]))
    IN  IF ~has_column(frame, "Real_Return")
        THEN [raised |-> "KeyError", frame |-> nominal]
        ELSE [raised |-> "none",
              frame  |-> set_column(nominal, "Cumulative_Real",
                                    cumulative(frame.data["Real_Return"]))]

(***************************************************************************)
(* Statistics of a series without missing values, as pandas computes them. *)
(***************************************************************************)
RECURSIVE Sum(_)
Sum(v) == IF Len(v) = 0 THEN Zero ELSE FAdd(Sum(SubSeq(v, 1, Len(v) - 1)), v[Len(v)])

\* Series.mean(): NaN for an empty series
mean(v) == IF Len(v) = 0 THEN NaN ELSE FDiv(Sum(v), Num(Len(v)))

\* Series.var(ddof=1): NaN for fewer than two observations
var(v) ==
    IF Len(v) < 2 THEN NaN
    ELSE LET avg == mean(v)
         IN  FDiv(Sum([i \in DOMAIN v |-> FMul(FSub(avg, v[i]), FSub(avg, v[i]))]),
                  Num(Len(v) - 1))

\* the largest k in lo..hi with k * k <= n
RECURSIVE ISqrtIn(_, _, _)
ISqrtIn(n, lo, hi) ==
    IF lo = hi THEN lo
    ELSE LET mid == (lo + hi + 1) \div 2
         IN  IF mid * mid <= n THEN ISqrtIn(n, mid, hi) ELSE ISqrtIn(n, lo, mid - 1)

ISqrt(n) == ISqrtIn(n, 0, IF n < 46340 THEN n ELSE 46340)

IsSquare(n) == ISqrt(n) * ISqrt(n) = n

\* s * sqrt(q) for a sign s and a rational q >= 0
SignedSqrt(s, q) ==
    IF IsNaN(q) THEN NaN
    ELSE IF q.k = "inf" THEN Inf(s)
    ELSE IF s = 0 \/ q.n = 0 THEN Zero
    ELSE IF IsSquare(q.n) /\ IsSquare(q.d) THEN Rat(s * ISqrt(q.n), ISqrt(q.d))
    ELSE [k |-> "sqrt", n |-> s * q.n, d |-> q.d]

\* the square of a rational or of a signed root
Square(x) == IF x.k = "sqrt" THEN Rat(Abs(x.n), x.d) ELSE FMul(x, x)

\* the product of two values that are rationals or signed roots
RootMul(x, y) ==
    IF IsNaN(x) \/ IsNaN(y) THEN NaN
    ELSE SignedSqrt(SignOf(x) * SignOf(y), FMul(Square(x), Square(y)))

\* Series.std(ddof=1)
std(v) == SignedSqrt(1, var(v))

RECURSIVE MinOf(_)
MinOf(v) ==
    IF Len(v) = 0 THEN NaN
    ELSE IF Len(v) = 1 THEN v[1]
    ELSE LET m == MinOf(SubSeq(v, 1, Len(v) - 1))
         IN  IF FLess(v[Len(v)], m) THEN v[Len(v)] ELSE m

RECURSIVE MaxOf(_)
MaxOf(v) ==
    IF Len(v) = 0 THEN NaN
    ELSE IF Len(v) = 1 THEN v[1]
    ELSE LET m == MaxOf(SubSeq(v, 1, Len(v) - 1))
         IN  IF FLess(m, v[Len(v)]) THEN v[Len(v)] ELSE m

(***************************************************************************)
(* calculate_rolling_correlation (calculations.py 91-113)                  *)
(***************************************************************************)
\* the window of length w that ends at position i
Window(v, i, w) == SubSeq(v, i - w + 1, i)

\* rolling(window).mean(): min_periods is the window, so the first w - 1
\* positions have no value
roll_mean(v, w) ==
    [i \in DOMAIN v |-> IF i < w THEN NaN ELSE mean(Window(v, i, w))]

\* rolling(window).var(ddof=1)
roll_var(v, w) ==
    [i \in DOMAIN v |-> IF i < w THEN NaN ELSE var(Window(v, i, w))]

\* numerator / (x_var * y_var) ** 0.5, held as the signed root of
\* (numerator / x_var) * (numerator / y_var); a zero variance divides by zero
div_by_root(numerator, x_var, y_var) ==
    IF IsNaN(numerator) \/ IsNaN(x_var) \/ IsNaN(y_var) THEN NaN
    ELSE IF IsZero(x_var) \/ IsZero(y_var)
         THEN (IF IsZero(numerator) THEN NaN ELSE Inf(SignOf(numerator)))
    ELSE SignedSqrt(SignOf(numerator),
                    FMul(FDiv(numerator, x_var), FDiv(numerator, y_var)))

\* Rolling.corr(other), ddof = 1, of two columns without missing values
rolling_corr(x, y, window) ==
    LET mean_x_y  == roll_mean([i \in DOMAIN x |-> FMul(x[i], y[i])], window)
        mean_x    == roll_mean(x, window)
        mean_y    == roll_mean(y, window)
        count_x_y == [i \in DOMAIN x |-> IF i < window THEN i ELSE window]
        x_var     == roll_var(x, window)
        y_var     == roll_var(y, window)
    IN  [i \in DOMAIN x |->
            div_by_root(
                FMul(FSub(mean_x_y[i], FMul(mean_x[i], mean_y[i])),
                     FDiv(Num(count_x_y[i]), Num(count_x_y[i] - 1))),
                x_var[i], y_var[i])]

\* the window one period too short
calculate_rolling_correlation_short(frame, col1, col2, window) ==
    IF ~has_column(frame, col1) \/ ~has_column(frame, col2)
    THEN [raised |-> "KeyError", value |-> EmptySeries]
    ELSE [raised |-> "none",
          value  |-> Series(frame.index,
                            rolling_corr(frame.data[col1], frame.data[col2], window - 1))]

calculate_rolling_correlation(frame, col1, col2, window) ==
    IF ~has_column(frame, col1) \/ ~has_column(frame, col2)
    THEN [raised |-> "KeyError", value |-> EmptySeries]
    ELSE [raised |-> "none",
          value  |-> Series(frame.index,
                            rolling_corr(frame.data[col1], frame.data[col2], window))]

(***************************************************************************)
(* analyze_by_regime (calculations.py 157-178)                             *)
(***************************************************************************)
\* a/b <= c/d for a, c >= 0 and b, d > 0, without multiplying
RECURSIVE RatLeq(_, _, _, _)
RatLeq(a, b, c, d) ==
    IF a \div b # c \div d THEN a \div b < c \div d
    ELSE IF a % b = 0 THEN TRUE
    ELSE IF c % d = 0 THEN FALSE
    ELSE RatLeq(d, c % d, b, a % b)

\* the largest k in lo..hi with k - 1/2 <= 10^4 * sqrt(n/d)
RECURSIVE NearestRootIn(_, _, _, _)
NearestRootIn(n, d, lo, hi) ==
    IF lo = hi THEN lo
    ELSE LET mid == (lo + hi + 1) \div 2
         IN  IF RatLeq((2 * mid - 1) * (2 * mid - 1), 400000000, n, d)
             THEN NearestRootIn(n, d, mid, hi)
             ELSE NearestRootIn(n, d, lo, mid - 1)

\* round(4): the nearest multiple of 1/10^4, a tie going to the even one;
\* a signed root (below 2 in magnitude) goes to the multiple nearest to it
round4(x) ==
    IF x.k = "num"
    THEN LET q == (x.n * 10000) \div x.d
             r == (x.n * 10000) % x.d
         IN  IF 2 * r > x.d \/ (2 * r = x.d /\ q % 2 = 1)
             THEN Rat(q + 1, 10000)
             ELSE Rat(q, 10000)
    ELSE IF x.k = "sqrt"
    THEN Rat(Sign(x.n) * NearestRootIn(Abs(x.n), x.d, 0, 20000), 10000)
    ELSE x

\* the values of column c in the rows whose regime is label
group_values(frame, label, c) ==
    Take(frame.data[c],
         Positions([i \in DOMAIN frame.index |-> frame.data["Inflation_Regime"][i] = label], 1))

\* groupby('Inflation_Regime'): one group for each label some row carries
group_keys(frame) == Range(frame.data["Inflation_Regime"])

\* agg({...}).round(4) of one group; count is the number of non-missing
\* Nominal_Return values of the group
regime_row(frame, label) ==
    LET nominal   == group_values(frame, label, "Nominal_Return")
        real      == group_values(frame, label, "Real_Return")
        inflation == group_values(frame, label, "Inflation_Rate")
    IN  [Nominal_Return |-> [count |-> Len(nominal),
                             mean  |-> round4(mean(nominal)),
                             std   |-> round4(std(nominal)),
                             min   |-> round4(MinOf(nominal)),
                             max   |-> round4(MaxOf(nominal))],
         Real_Return    |-> [mean  |-> round4(mean(real)),
                             std   |-> round4(std(real)),
                             min   |-> round4(MinOf(real)),
                             max   |-> round4(MaxOf(real))],
         Inflation_Rate |-> [mean  |-> round4(mean(inflation)),
                             min   |-> round4(MinOf(inflation)),
                             max   |-> round4(MaxOf(inflation))]]

\* a row for each of the three regimes, observed in the frame or not
analyze_by_regime_all_labels(frame) ==
    IF ~has_column(frame, "Inflation_Regime") \/ ~has_column(frame, "Real_Return")
    THEN [raised |-> "KeyError", value |-> <<>>]
    ELSE [raised |-> "none",
          value  |-> [label \in {"Low (<1%)", "Moderate (1-3%)", "High (>3%)"} |->
                         regime_row(frame, label)]]

analyze_by_regime(frame) ==
    IF ~has_column(frame, "Inflation_Regime") \/ ~has_column(frame, "Real_Return")
    THEN [raised |-> "KeyError", value |-> <<>>]
    ELSE [raised |-> "none",
          value  |-> [label \in group_keys(frame) |-> regime_row(frame, label)]]

(***************************************************************************)
(* calculate_annualized_metrics (calculations.py 200-225)                  *)
(***************************************************************************)
\* base ** 12 - 1, held as the term: the twelfth power of a rational with a
\* denominator of 100 does not fit a 32-bit integer
pow12_minus_1(base) ==
    IF IsNaN(base) THEN NaN
    ELSE IF base.k = "inf" THEN Inf(1)
    ELSE IF Abs(base.n) = base.d THEN Zero
    ELSE [k |-> "pow12m1", n |-> Abs(base.n), d |-> base.d]

\* the sign of a rational, a signed root, an infinity or a term b**12 - 1
TermSign(x) ==
    IF x.k = "pow12m1" THEN (IF x.n > x.d THEN 1 ELSE -1) ELSE Sign(x.n)

\* x / y, held as the term when y is not zero; x / 0 is +-inf, 0 / 0 is NaN
quotient(x, y) ==
    IF IsNaN(x) \/ IsNaN(y) THEN NaN
    ELSE IF IsZero(y) THEN (IF IsZero(x) THEN NaN ELSE Inf(TermSign(x)))
    ELSE IF IsZero(x) THEN Zero
    ELSE [k |-> "quot", n |-> x, d |-> y]

\* the Sharpe ratio without the zero guard
sharpe_ratio_unguarded(ann_return, ann_vol) == quotient(ann_return, ann_vol)

\* ann_return / ann_vol if ann_vol != 0 else 0: NaN != 0 is True
sharpe_ratio(ann_return, ann_vol) ==
    IF ~IsZero(ann_vol) THEN quotient(ann_return, ann_vol) ELSE Zero

calculate_annualized_metrics(returns) ==
    LET ann_return == pow12_minus_1(FAdd(One, mean(returns)))
        ann_vol    == RootMul(std(returns), SignedSqrt(1, Num(12)))
    IN  [Annualized_Return     |-> ann_return,
         Annualized_Volatility |-> ann_vol,
         Sharpe_Ratio          |-> sharpe_ratio(ann_return, ann_vol)]

(***************************************************************************)
(* DataLoader.resample_to_monthly (data_loader.py 92-111)                  *)
(*                                                                         *)
(* The frame df[[price_col]] is modelled as the Series of its one column.  *)
(* The dates here span January to March.                                   *)
(***************************************************************************)
\* the bins of resample('ME'): the month-ends from the month of the earliest
\* date to the month of the latest one, every month between them included
RECURSIVE month_ends(_, _)
month_ends(first, final) ==
    IF first >= final THEN <<final>>
    ELSE <<first>> \o month_ends(MonthEnd(first + 1), final)

\* the values of the rows whose date falls in the month that ends on bin,
\* in row order
bin_values(s, bin) ==
    Take(s.values, Positions([i \in DOMAIN s.index |-> MonthEnd(s.index[i]) = bin], 1))

\* GroupBy.last(): the last value of the group that is not NaN; NaN for a
\* group without such a value, an empty bin in particular
last_valid(v) ==
    LET pos == Positions([i \in DOMAIN v |-> ~IsNaN(v[i])], 1)
    IN  IF Len(pos) = 0 THEN NaN ELSE v[pos[Len(pos)]]

\* df[[price_col]].resample('ME').last()
resample_to_monthly(prices) ==
    IF Len(prices.index) = 0 THEN EmptySeries
    ELSE LET lo   == CHOOSE x \in Range(prices.index) : \A y \in Range(prices.index) : x <= y
             hi   == CHOOSE x \in Range(prices.index) : \A y \in Range(prices.index) : x >= y
             bins == month_ends(MonthEnd(lo), MonthEnd(hi))
         IN  Series(bins, [i \in DOMAIN bins |-> last_valid(bin_values(prices, bins[i]))])

(***************************************************************************)
(* Inputs of the model.                                                    *)
(***************************************************************************)
\* a month-end price: missing (a month without observation), zero, positive
PriceVals == {NaN, Num(0), Num(1), Num(2)}

\* observation dates: mid and end of January, mid and end of February
Dates == {15, 31, 45, 59}

\* an inflation rate or a return of an align_data input: missing or present
AlignVals == {NaN, Rat(1, 50)}

NoCall == [op |-> "none"]

(***************************************************************************)
(* SpecReturns: calculate_returns on every price series up to MaxLen.      *)
(***************************************************************************)
InitReturns ==
    /\ pct_fill \in {"pad", "none"}
    /\ prices_df \in {Series([i \in 1..Len(v) |-> i], v) : v \in SeqsUpTo(PriceVals, MaxLen)}
    /\ cpi_df = EmptySeries
    /\ returns_series = EmptySeries
    /\ inflation_rate = Zero
    /\ df = EmptyFrame
    /\ last = NoCall

CalculateReturns ==
    /\ last' = [op |-> "calculate_returns", raised |-> "none",
                value |-> calculate_returns(prices_df, pct_fill)]
    /\ UNCHANGED <<pct_fill, prices_df, cpi_df, returns_series, inflation_rate, df>>

NextReturns == CalculateReturns

SpecReturns == InitReturns /\ [][NextReturns]_vars

(***************************************************************************)
(* SpecAlign: align_data on every inflation series up to MaxRows, sorted or *)
(* not, with or without two observations in one month, and every monthly   *)
(* return series up to MaxRows.                                            *)
(***************************************************************************)
AlignInputs ==
    UNION {{Series(i, v) : i \in [1..m -> Dates], v \in [1..m -> AlignVals]} : m \in 0..MaxRows}

\* a monthly series, as calculate_returns derives it from month-end prices:
\* in date order, at most one observation in a month
MonthlyInputs ==
    {s \in AlignInputs :
        \A i, j \in DOMAIN s.index : i < j => MonthEnd(s.index[i]) < MonthEnd(s.index[j])}

\* a dated series: no date twice, in any order; two dates may share a month
DatedInputs ==
    {s \in AlignInputs : ~has_duplicates(s.index)}

InitAlign ==
    /\ pct_fill = "none"
    /\ prices_df = EmptySeries
    /\ cpi_df \in DatedInputs
    /\ returns_series \in MonthlyInputs
    /\ inflation_rate = Zero
    /\ df = EmptyFrame
    /\ last = NoCall

AlignData ==
    /\ last' = [op |-> "align_data"] @@ align_data(cpi_df, returns_series)
    /\ UNCHANGED <<pct_fill, prices_df, cpi_df, returns_series, inflation_rate, df>>

NextAlign == AlignData

SpecAlign == InitAlign /\ [][NextAlign]_vars

(***************************************************************************)
(* SpecClassify: classify_inflation_regime on every rate of a grid of      *)
(* 1/2000 (0.05 percentage points) around the two thresholds.              *)
(***************************************************************************)
\* the grid spans -RateSteps/2000 .. RateSteps/2000
RateSteps == 100

RateGrid == {Rat(i, 2000) : i \in (-RateSteps)..RateSteps}

InitClassify ==
    /\ pct_fill = "none"
    /\ prices_df = EmptySeries
    /\ cpi_df = EmptySeries
    /\ returns_series = EmptySeries
    /\ inflation_rate \in RateGrid
    /\ df = EmptyFrame
    /\ last = NoCall

ClassifyInflationRegime ==
    /\ last' = [op |-> "classify_inflation_regime", raised |-> "none",
                value |-> classify_inflation_regime(inflation_rate)]
    /\ UNCHANGED <<pct_fill, prices_df, cpi_df, returns_series, inflation_rate, df>>

NextClassify == ClassifyInflationRegime

SpecClassify == InitClassify /\ [][NextClassify]_vars

(***************************************************************************)
(* Spec: a caller holds a combined frame, as align_data returns it (every  *)
(* row complete), and calls the enrichment steps and the regime analysis   *)
(* on it in any order.                                                     *)
(***************************************************************************)
\* the rows a frame is made of: <<Inflation_Rate, Nominal_Return>>
FrameRows ==
    { <<Rat(1, 50),  Rat(1, 100)>>,
      <<Rat(1, 50),  Rat(-1, 100)>>,
      <<Rat(1, 25),  Rat(1, 50)>>,
      <<Rat(3, 100), Num(-1)>>,
      <<Num(0),      Rat(1, 50)>> }

CombinedFrame(rows) ==
    Frame([i \in DOMAIN rows |-> i],
          [c \in {"Inflation_Rate", "Nominal_Return"} |->
              [i \in DOMAIN rows |-> IF c = "Inflation_Rate" THEN rows[i][1] ELSE rows[i][2]]])

Init ==
    /\ pct_fill = "none"
    /\ prices_df = EmptySeries
    /\ cpi_df = EmptySeries
    /\ returns_series = EmptySeries
    /\ inflation_rate = Zero
    /\ df \in {CombinedFrame(rows) : rows \in SeqsUpTo(FrameRows, MaxLen)}
    /\ last = NoCall

Inputs == <<pct_fill, prices_df, cpi_df, returns_series, inflation_rate>>

\* the frame is changed in place and the same frame is returned
CalculateRealReturns ==
    /\ df' = calculate_real_returns(df)
    /\ last' = [op |-> "calculate_real_returns", raised |-> "none", before |-> df]
    /\ UNCHANGED Inputs

AddInflationRegimes ==
    /\ df' = add_inflation_regimes(df)
    /\ last' = [op |-> "add_inflation_regimes", raised |-> "none", before |-> df]
    /\ UNCHANGED Inputs

CalculateCumulativeReturns ==
    /\ df' = calculate_cumulative_returns(df).frame
    /\ last' = [op |-> "calculate_cumulative_returns",
                raised |-> calculate_cumulative_returns(df).raised, before |-> df]
    /\ UNCHANGED Inputs

AnalyzeByRegime ==
    /\ last' = [op |-> "analyze_by_regime"] @@ analyze_by_regime(df)
    /\ UNCHANGED <<df, Inputs>>

Next ==
    \/ CalculateRealReturns
    \/ AddInflationRegimes
    \/ CalculateCumulativeReturns
    \/ AnalyzeByRegime

Spec == Init /\ [][Next]_vars

(***************************************************************************)
(* SpecAnalysis: a caller holds a combined frame with its real returns and *)
(* calls the rolling correlation and the annualized metrics on it.         *)
(***************************************************************************)
InitAnalysis ==
    /\ pct_fill = "none"
    /\ prices_df = EmptySeries
    /\ cpi_df = EmptySeries
    /\ returns_series = EmptySeries
    /\ inflation_rate = Zero
    /\ df \in {calculate_real_returns(CombinedFrame(rows)) : rows \in SeqsUpTo(FrameRows, MaxLen)}
    /\ last = NoCall

CalculateRollingCorrelation ==
    \E col1 \in {"Nominal_Return", "Real_Return"}, window \in 1..MaxLen :
        /\ last' = [op |-> "calculate_rolling_correlation",
                    col1 |-> col1, col2 |-> "Inflation_Rate", window |-> window]
                   @@ calculate_rolling_correlation(df, col1, "Inflation_Rate", window)
        /\ UNCHANGED <<df, Inputs>>

\* the caller passes a column of its frame
CalculateAnnualizedMetrics ==
    \E col \in {"Nominal_Return", "Real_Return"} \cap DOMAIN df.data :
        /\ last' = [op |-> "calculate_annualized_metrics", raised |-> "none", col |-> col,
                    value |-> calculate_annualized_metrics(df.data[col])]
        /\ UNCHANGED <<df, Inputs>>

NextAnalysis ==
    \/ CalculateRollingCorrelation
    \/ CalculateAnnualizedMetrics

SpecAnalysis == InitAnalysis /\ [][NextAnalysis]_vars

(***************************************************************************)
(* SpecResample: resample_to_monthly on every daily price series up to     *)
(* MaxLen, sorted by date as load_market_prices returns it; the dates lie  *)
(* in January, February and March, so a series may skip February.          *)
(***************************************************************************)
\* observation dates: 10 Jan, 31 Jan, 14 Feb, 11 Mar, 31 Mar
DailyDates == {10, 31, 45, 70, 90}

\* a closing price of a daily observation
DailyVals == {Num(1), Num(2)}

\* a daily series: in date order, no date twice
DailyInputs ==
    {s \in UNION {{Series(i, v) : i \in [1..m -> DailyDates], v \in [1..m -> DailyVals]} :
                     m \in 0..MaxLen} :
        \A i, j \in DOMAIN s.index : i < j => s.index[i] < s.index[j]}

InitResample ==
    /\ pct_fill = "none"
    /\ prices_df \in DailyInputs
    /\ cpi_df = EmptySeries
    /\ returns_series = EmptySeries
    /\ inflation_rate = Zero
    /\ df = EmptyFrame
    /\ last = NoCall

ResampleToMonthly ==
    /\ last' = [op |-> "resample_to_monthly", raised |-> "none",
                value |-> resample_to_monthly(prices_df)]
    /\ UNCHANGED <<pct_fill, prices_df, cpi_df, returns_series, inflation_rate, df>>

NextResample == ResampleToMonthly

SpecResample == InitResample /\ [][NextResample]_vars


(***************************************************************************)
(* Claims about calculate_returns (SpecReturns).                           *)
(***************************************************************************)
ReturnsCalled == last.op = "calculate_returns"

PricesPresent ==
    \A i \in DOMAIN prices_df.values :
        IsNum(prices_df.values[i]) /\ ~IsZero(prices_df.values[i])

\* the result has one value for each position 2..N of the price series, in
\* order, and the value at position i is r with (r + 1) * p[i-1] = p[i]
OneReturnPerStep ==
    LET p == prices_df.values
        r == last.value
    IN  /\ r.index = [j \in 1..(Len(p) - 1) |-> prices_df.index[j + 1]]
        /\ Len(r.values) = Len(p) - 1
        /\ \A j \in 1..(Len(p) - 1) :
              /\ IsNum(r.values[j])
              /\ IsNum(p[j]) /\ IsNum(p[j + 1])
              /\ FMul(FAdd(r.values[j], One), p[j]) = p[j + 1]

\* C1 as stated: every price series of length N >= 2 yields exactly N-1
\* returns, the return at position i being p[i]/p[i-1] - 1, and the first
\* observation is absent from the result.
C1_EveryPriceSeries ==
    (ReturnsCalled /\ Len(prices_df.values) >= 2) => OneReturnPerStep

\* C1 amended: as C1, for the price series whose prices are all present and
\* non-zero.
C1_PresentPrices ==
    (ReturnsCalled /\ Len(prices_df.values) >= 2 /\ PricesPresent) => OneReturnPerStep

C1_Witness ==
    /\ ReturnsCalled
    /\ PricesPresent
    /\ Len(prices_df.values) = 3
    /\ last.value.index = <<2, 3>>
    /\ last.value.values = <<Num(1), Rat(-1, 2)>>

(***************************************************************************)
(* Claims about align_data (SpecAlign).                                    *)
(***************************************************************************)
AlignCalled == last.op = "align_data"

\* series s has a non-missing value in the month that ends on month_end
PresentIn(s, month_end) ==
    \E i \in DOMAIN s.index :
        MonthEnd(s.index[i]) = month_end /\ ~IsNaN(s.values[i])

\* C2: align_data returns, without error, the frame that has a row for a
\* month-end exactly when both inputs have a non-missing value in that
\* month; in particular an empty frame when they share no month.
C2_InnerJoin ==
    AlignCalled =>
        /\ last.raised = "none"
        /\ \A date \in Dates :
              (\E i \in DOMAIN last.value.index : last.value.index[i] = MonthEnd(date))
              <=> (PresentIn(cpi_df, MonthEnd(date)) /\ PresentIn(returns_series, MonthEnd(date)))

\* C3: the dates of every frame align_data returns are strictly increasing
\* (hence unique) and no row has a missing Inflation_Rate or Nominal_Return.
C3_UniqueIncreasingComplete ==
    (AlignCalled /\ last.raised = "none") =>
        LET f == last.value
        IN  /\ \A i, j \in DOMAIN f.index : i < j => f.index[i] < f.index[j]
            /\ \A i \in DOMAIN f.index :
                  /\ ~IsNaN(f.data["Inflation_Rate"][i])
                  /\ ~IsNaN(f.data["Nominal_Return"][i])

(***************************************************************************)
(* Claims about classify_inflation_regime (SpecClassify).                  *)
(***************************************************************************)
ClassifyCalled == last.op = "classify_inflation_regime"

\* C4: the call raises nothing and returns Low for a rate below 1/100,
\* Moderate for a rate from 1/100 up to but not including 3/100, and High
\* for a rate of 3/100 or more; 1/100 is Moderate and 3/100 is High.
C4_ThreeBuckets ==
    ClassifyCalled =>
        LET n == inflation_rate.n
            d == inflation_rate.d
        IN  /\ last.raised = "none"
            /\ last.value \in {"Low (<1%)", "Moderate (1-3%)", "High (>3%)"}
            /\ (100 * n < d) <=> (last.value = "Low (<1%)")
            /\ (100 * n >= d /\ 100 * n < 3 * d) <=> (last.value = "Moderate (1-3%)")
            /\ (100 * n >= 3 * d) <=> (last.value = "High (>3%)")

C4_Witness ==
    /\ ClassifyCalled
    /\ inflation_rate = Rat(3, 100)
    /\ last.value = "High (>3%)"

(***************************************************************************)
(* Claims about the enrichment steps and the regime analysis (Spec).       *)
(***************************************************************************)
\* C5: no call changes the frame the caller passed in: it has the same
\* columns and the same values after the call as before it.
C5_CallerFrameUnchanged == [][df' = df]_vars

CumulativeCalled ==
    last.op = "calculate_cumulative_returns" /\ last.raised = "none"

\* cumulative is the compounded growth of returns: C_1 = r_1 and
\* 1 + C_t = (1 + C_(t-1)) * (1 + r_t)
Compounded(returns, cum) ==
    /\ Len(cum) = Len(returns)
    /\ \A t \in DOMAIN returns :
          IF t = 1 THEN cum[1] = returns[1]
          ELSE FAdd(One, cum[t]) = FMul(FAdd(One, cum[t - 1]), FAdd(One, returns[t]))

\* the return of period t reconstructed from the cumulative series
Reconstructed(cum, t) ==
    IF t = 1 THEN cum[1]
    ELSE FSub(FDiv(FAdd(One, cum[t]), FAdd(One, cum[t - 1])), One)

\* the cumulative value before period t is not -1 (no total loss so far)
Recoverable(cum, t) == t = 1 \/ cum[t - 1] # Num(-1)

CumulativePairs ==
    { <<"Nominal_Return", "Cumulative_Nominal">>, <<"Real_Return", "Cumulative_Real">> }

\* C6 as stated: each cumulative column is the compounded product of its
\* return column minus 1, and (1 + C_t)/(1 + C_(t-1)) - 1 recovers the
\* return of every period t.
C6_RecoversEveryReturn ==
    CumulativeCalled =>
        \A pair \in CumulativePairs :
            /\ Compounded(df.data[pair[1]], df.data[pair[2]])
            /\ \A t \in DOMAIN df.index :
                  Reconstructed(df.data[pair[2]], t) = df.data[pair[1]][t]

\* C6 amended: each cumulative column is the compounded product of its
\* return column minus 1, and (1 + C_t)/(1 + C_(t-1)) - 1 recovers the
\* return of every period t whose previous cumulative value is not -1;
\* after a cumulative value of -1 the reconstruction is 0/0, undefined.
C6_RecoversUnlessTotalLoss ==
    CumulativeCalled =>
        \A pair \in CumulativePairs :
            /\ Compounded(df.data[pair[1]], df.data[pair[2]])
            /\ \A t \in DOMAIN df.index :
                  IF Recoverable(df.data[pair[2]], t)
                  THEN Reconstructed(df.data[pair[2]], t) = df.data[pair[1]][t]
                  ELSE IsNaN(Reconstructed(df.data[pair[2]], t))

C6_Witness ==
    /\ CumulativeCalled
    /\ Len(df.index) = 3
    /\ df.data["Nominal_Return"] = <<Rat(1, 100), Rat(-1, 100), Rat(1, 50)>>
    /\ df.data["Cumulative_Nominal"][3] = Rat(19898, 1000000)
    /\ \A t \in 1..3 : Recoverable(df.data["Cumulative_Real"], t)

CumulativeAttempted == last.op = "calculate_cumulative_returns"

\* C12: calculate_cumulative_returns succeeds on a frame that has its
\* Real_Return column; on a frame with Nominal_Return but no Real_Return it
\* raises the missing-column error (KeyError) and nevertheless leaves the
\* caller's frame with the Cumulative_Nominal column, compounded from
\* Nominal_Return, and without a Cumulative_Real column: a frame that had no
\* Cumulative_Nominal before the call is changed by the failed call.
C12_FailedCallLeavesCumulativeNominal ==
    CumulativeAttempted =>
        IF has_column(last.before, "Real_Return")
        THEN /\ last.raised = "none"
             /\ has_column(df, "Cumulative_Nominal")
             /\ has_column(df, "Cumulative_Real")
        ELSE /\ last.raised = "KeyError"
             /\ has_column(df, "Cumulative_Nominal")
             /\ Compounded(df.data["Nominal_Return"], df.data["Cumulative_Nominal"])
             /\ ~has_column(df, "Cumulative_Real")
             /\ \A c \in DOMAIN last.before.data : df.data[c] = last.before.data[c]
             /\ ~has_column(last.before, "Cumulative_Nominal") => df # last.before

C12_Witness ==
    /\ CumulativeAttempted
    /\ last.raised = "KeyError"
    /\ DOMAIN last.before.data = {"Inflation_Rate", "Nominal_Return"}
    /\ df.data["Nominal_Return"] = <<Rat(1, 100), Rat(-1, 100), Rat(1, 50)>>
    /\ df.data["Cumulative_Nominal"] = <<Rat(1, 100), Rat(-1, 10000), Rat(19898, 1000000)>>
    /\ DOMAIN df.data = {"Inflation_Rate", "Nominal_Return", "Cumulative_Nominal"}

RealReturnsCalled == last.op = "calculate_real_returns"

\* C9: after calculate_real_returns the frame has the rows and dates it had
\* and each row's Real_Return plus its Inflation_Rate is its Nominal_Return.
C9_RealIsNominalMinusInflation ==
    RealReturnsCalled =>
        /\ df.index = last.before.index
        /\ Len(df.data["Real_Return"]) = Len(df.index)
        /\ \A i \in DOMAIN df.index :
              /\ df.data["Nominal_Return"][i] = last.before.data["Nominal_Return"][i]
              /\ df.data["Inflation_Rate"][i] = last.before.data["Inflation_Rate"][i]
              /\ FAdd(df.data["Real_Return"][i], df.data["Inflation_Rate"][i])
                    = df.data["Nominal_Return"][i]

C9_Witness ==
    /\ RealReturnsCalled
    /\ df.data["Inflation_Rate"] = <<Rat(2, 100), Rat(2, 100), Rat(4, 100)>>
    /\ df.data["Nominal_Return"] = <<Rat(1, 100), Rat(-1, 100), Rat(2, 100)>>
    /\ df.data["Real_Return"] = <<Rat(-1, 100), Rat(-3, 100), Rat(-2, 100)>>

AnalyzeCalled == last.op = "analyze_by_regime" /\ last.raised = "none"

RowsWith(label) ==
    {i \in DOMAIN df.index : df.data["Inflation_Regime"][i] = label}

\* the statistics of a regime's row other than the two standard deviations
OtherStatistics(row) ==
    { row.Nominal_Return.mean, row.Nominal_Return.min, row.Nominal_Return.max,
      row.Real_Return.mean, row.Real_Return.min, row.Real_Return.max,
      row.Inflation_Rate.mean, row.Inflation_Rate.min, row.Inflation_Rate.max }

\* the table has a row exactly for the regimes some row of the frame
\* carries, and a regime's count is the number of rows that carry it
OneRowPerObservedRegime ==
    /\ DOMAIN last.value = {df.data["Inflation_Regime"][i] : i \in DOMAIN df.index}
    /\ \A label \in DOMAIN last.value :
          /\ last.value[label].Nominal_Return.count = Cardinality(RowsWith(label))
          /\ last.value[label].Nominal_Return.count >= 1

\* C10 as stated: one row for each observed regime and none for the others,
\* the count is the number of rows of the regime, and no statistic of a
\* returned regime is missing.
C10_NoStatisticMissing ==
    AnalyzeCalled =>
        /\ OneRowPerObservedRegime
        /\ \A label \in DOMAIN last.value :
              \A x \in OtherStatistics(last.value[label])
                       \cup {last.value[label].Nominal_Return.std,
                             last.value[label].Real_Return.std} : ~IsNaN(x)

\* C10 amended: one row for each observed regime and none for the others,
\* the count is the number of rows of the regime, and no statistic of a
\* returned regime is missing except the standard deviations of a regime
\* with exactly one observation, which are NaN.
C10_StdMissingForSingleRow ==
    AnalyzeCalled =>
        /\ OneRowPerObservedRegime
        /\ \A label \in DOMAIN last.value :
              /\ \A x \in OtherStatistics(last.value[label]) : ~IsNaN(x)
              /\ \A x \in {last.value[label].Nominal_Return.std,
                           last.value[label].Real_Return.std} :
                    IsNaN(x) <=> (Cardinality(RowsWith(label)) = 1)

C10_Witness ==
    /\ AnalyzeCalled
    /\ Len(df.index) = 3
    /\ DOMAIN last.value = {"Moderate (1-3%)", "High (>3%)"}
    /\ last.value["Moderate (1-3%)"].Nominal_Return.count = 2
    /\ last.value["High (>3%)"].Nominal_Return.count = 1
    /\ ~IsNaN(last.value["Moderate (1-3%)"].Nominal_Return.std)

(***************************************************************************)
(* Claims about the rolling correlation and the metrics (SpecAnalysis).    *)
(***************************************************************************)
RollingCalled ==
    last.op = "calculate_rolling_correlation" /\ last.raised = "none"

\* a defined number between -1 and 1
InUnitInterval(x) == x.k \in {"num", "sqrt"} /\ Abs(x.n) <= x.d

\* the values of column c in the window that ends at row i are all equal
ConstantWindow(c, i) ==
    \A j \in (i - last.window + 1)..i : df.data[c][j] = df.data[c][i]

\* one entry for each row of the frame, none defined before row window
OneEntryPerRow ==
    /\ last.value.index = df.index
    /\ Len(last.value.values) = Len(df.index)
    /\ \A i \in DOMAIN df.index : i < last.window => IsNaN(last.value.values[i])

\* C7 as stated: one entry for each row, the first window-1 undefined, and
\* every entry from position window on a defined value in [-1, 1].
C7_DefinedFromWindowOn ==
    RollingCalled =>
        /\ OneEntryPerRow
        /\ \A i \in DOMAIN df.index :
              i >= last.window => InUnitInterval(last.value.values[i])

\* C7 amended: one entry for each row, the first window-1 undefined, and
\* an entry from position window on is a defined value in [-1, 1] when
\* neither column is constant over its window, and undefined (NaN) when one
\* is; with window = 1 every entry is undefined.
C7_DefinedUnlessConstantWindow ==
    RollingCalled =>
        /\ OneEntryPerRow
        /\ \A i \in DOMAIN df.index :
              i >= last.window =>
                  IF ConstantWindow(last.col1, i) \/ ConstantWindow(last.col2, i)
                  THEN IsNaN(last.value.values[i])
                  ELSE InUnitInterval(last.value.values[i])

C7_Witness ==
    /\ RollingCalled
    /\ last.window = 2
    /\ Len(df.index) = 3
    /\ IsNaN(last.value.values[1])
    /\ IsNaN(last.value.values[2])
    /\ last.value.values[3] = Num(-1)

MetricsCalled == last.op = "calculate_annualized_metrics"

MetricsKeys == {"Annualized_Return", "Annualized_Volatility", "Sharpe_Ratio"}

\* a number: neither NaN nor an infinity
Defined(x) == x.k \notin {"nan", "inf"}

\* the mapping has exactly the three keys; Sharpe_Ratio is the quotient of
\* return and volatility when the volatility is not 0 and 0 when it is, as
\* it is, in exact arithmetic, for a constant series of two or more
SharpeGuarded ==
    LET m == last.value
    IN  /\ last.raised = "none"
        /\ DOMAIN m = MetricsKeys
        /\ IsZero(m.Annualized_Volatility) => m.Sharpe_Ratio = Zero
        /\ ~IsZero(m.Annualized_Volatility) =>
              m.Sharpe_Ratio = quotient(m.Annualized_Return, m.Annualized_Volatility)
        /\ (\A i, j \in DOMAIN df.data[last.col] :
               df.data[last.col][i] = df.data[last.col][j]) /\ Len(df.index) >= 2
              => IsZero(m.Annualized_Volatility) /\ m.Sharpe_Ratio = Zero

\* C8 as stated: the three keys, the guarded quotient, no exception, and a
\* defined Sharpe_Ratio for every series, a single observation included.
C8_SharpeAlwaysDefined ==
    MetricsCalled => SharpeGuarded /\ Defined(last.value.Sharpe_Ratio)

\* C8 amended: the three keys, the guarded quotient and no exception for
\* every series; Sharpe_Ratio is a defined number for every series of two
\* or more observations, and NaN, with a NaN volatility, for a series of
\* fewer than two.
C8_SharpeDefinedFromTwoObservations ==
    MetricsCalled =>
        /\ SharpeGuarded
        /\ IF Len(df.index) >= 2
           THEN Defined(last.value.Sharpe_Ratio)
           ELSE IsNaN(last.value.Annualized_Volatility) /\ IsNaN(last.value.Sharpe_Ratio)

C8_Witness ==
    /\ MetricsCalled
    /\ Len(df.index) = 2
    /\ df.data[last.col] = <<Rat(1, 50), Rat(1, 50)>>
    /\ IsZero(last.value.Annualized_Volatility)
    /\ last.value.Sharpe_Ratio = Zero

(***************************************************************************)
(* Claims about resample_to_monthly (SpecResample).                        *)
(***************************************************************************)
ResampleCalled == last.op = "resample_to_monthly"

\* the value of the last observation of s dated on or before date
LastObserved(s, date) ==
    LET seen == {i \in DOMAIN s.index : s.index[i] <= date /\ ~IsNaN(s.values[i])}
    IN  IF seen = {} THEN NaN
        ELSE s.values[CHOOSE i \in seen : \A j \in seen : j <= i]

\* the result has exactly one row for each month-end from the month of the
\* first observation to the month of the last one, in date order
OneRowPerMonth ==
    LET r       == last.value
        first   == MonthEnd(prices_df.index[1])
        final   == MonthEnd(prices_df.index[Len(prices_df.index)])
    IN  /\ \A i, j \in DOMAIN r.index : i < j => r.index[i] < r.index[j]
        /\ Range(r.index) =
              {MonthEnd(date) : date \in first..final}

\* C11: for a daily price series sorted by date, resample_to_monthly returns
\* one row per calendar month from the first to the last observed month,
\* keyed by the month's last day, and the value of each row is the last
\* observed value on or before that day, also in a month without any
\* observation.
C11_LastObservedOnOrBefore ==
    (ResampleCalled /\ Len(prices_df.index) > 0) =>
        /\ OneRowPerMonth
        /\ \A i \in DOMAIN last.value.index :
              last.value.values[i] = LastObserved(prices_df, last.value.index[i])

====
